---------------------------- MODULE Spec2Model ----------------------------
(***************************************************************************)
(* Model of src/main.py: the FAQ scraper service.                          *)
(*                                                                         *)
(* A Python str is a sequence of one-character strings; Python None in a   *)
(* place where a str may also stand is the one-element sequence None.      *)
(***************************************************************************)
EXTENDS Integers, Sequences, FiniteSets, TLC

(***************************************************************************)
(* Bounds of the model.                                                    *)
(***************************************************************************)
MaxPieces == 4
MaxFetches == 12
MaxTasks == 2

(***************************************************************************)
(* str helpers                                                             *)
(***************************************************************************)
None == <<"None">>

Letters ==
  {"a", "b", "c", "d", "e", "f", "g", "h", "i", "j", "k", "l", "m",
   "n", "o", "p", "q", "r", "s", "t", "u", "v", "w", "x", "y", "z"}

Whitespace == {" ", "\n", "\t", "\r"}

StartsWith(s, p) == Len(s) >= Len(p) /\ SubSeq(s, 1, Len(p)) = p

Contains(s, p) ==
  \E i \in 1..(Len(s) - Len(p) + 1) : SubSeq(s, i, i + Len(p) - 1) = p

HasChar(s, c) == \E i \in 1..Len(s) : s[i] = c

\* index of the first character of s that is in cs, Len(s)+1 if none
FirstOf(s, cs) ==
  IF \E i \in 1..Len(s) : s[i] \in cs
  THEN CHOOSE i \in 1..Len(s) : s[i] \in cs /\ \A j \in 1..(i - 1) : s[j] \notin cs
  ELSE Len(s) + 1

\* index of the last character of s that is in cs, 0 if none
LastOf(s, cs) ==
  IF \E i \in 1..Len(s) : s[i] \in cs
  THEN CHOOSE i \in 1..Len(s) : s[i] \in cs /\ \A j \in (i + 1)..Len(s) : s[j] \notin cs
  ELSE 0

\* str.lstrip(cs), str.rstrip(cs), str.strip(cs)
LStrip(s, cs) == SubSeq(s, FirstOf(s, {s[i] : i \in 1..Len(s)} \ cs), Len(s))

RStrip(s, cs) == SubSeq(s, 1, LastOf(s, {s[i] : i \in 1..Len(s)} \ cs))

Strip(s, cs) == LStrip(RStrip(s, cs), cs)

\* s up to the first character in cs, and s after the last character in cs
BeforeAny(s, cs) == SubSeq(s, 1, FirstOf(s, cs) - 1)

AfterLast(s, cs) == SubSeq(s, LastOf(s, cs) + 1, Len(s))

\* str.split(sep) for a one-character separator
RECURSIVE SplitChar(_, _)
SplitChar(s, c) ==
  IF ~HasChar(s, c) THEN <<s>>
  ELSE <<BeforeAny(s, {c})>> \o SplitChar(SubSeq(s, FirstOf(s, {c}) + 1, Len(s)), c)

\* sep.join(parts)
RECURSIVE Join(_, _)
Join(parts, sep) ==
  IF parts = <<>> THEN <<>>
  ELSE IF Len(parts) = 1 THEN parts[1]
  ELSE parts[1] \o sep \o Join(Tail(parts), sep)

\* the elements of s other than x, in order
RECURSIVE Without(_, _)
Without(s, x) ==
  IF s = <<>> THEN <<>>
  ELSE (IF s[1] # x THEN <<s[1]>> ELSE <<>>) \o Without(Tail(s), x)

\* s in a Python list
InList(x, list) == \E i \in 1..Len(list) : list[i] = x

Range(s) == {s[i] : i \in 1..Len(s)}

(***************************************************************************)
(* URL classifier: is_valid_url, get_domain (tldextract), urlparse,        *)
(* urljoin                                                                 *)
(***************************************************************************)
HTTP == <<"h", "t", "t", "p">>

is_valid_url(url) == StartsWith(url, HTTP)

\* urlsplit: the scheme is what precedes the first ':' when it is a letter
\* followed by letters, digits, '+', '-' or '.'
SchemeChars == Letters \cup {"+", "-", ".", "0", "1"}

SchemeEnd(url) ==
  LET i == FirstOf(url, {":"})
  IN  IF /\ i <= Len(url)
         /\ i > 1
         /\ url[1] \in Letters
         /\ \A j \in 1..(i - 1) : url[j] \in SchemeChars
      THEN i
      ELSE 0

UrlScheme(url) == SubSeq(url, 1, SchemeEnd(url) - 1)

\* what follows "scheme:"
AfterScheme(url) == SubSeq(url, SchemeEnd(url) + 1, Len(url))

HasNetloc(url) == StartsWith(AfterScheme(url), <<"/", "/">>)

UrlNetloc(url) ==
  IF HasNetloc(url)
  THEN BeforeAny(SubSeq(AfterScheme(url), 3, Len(AfterScheme(url))), {"/", "?", "#"})
  ELSE <<>>

\* urlsplit raises ValueError("Invalid IPv6 URL") on unbalanced brackets
UrlParseRaises(url) ==
  LET n == UrlNetloc(url)
  IN  \/ HasChar(n, "[") /\ ~HasChar(n, "]")
      \/ HasChar(n, "]") /\ ~HasChar(n, "[")

\* urlparse(url).path
AfterNetloc(url) ==
  IF HasNetloc(url)
  THEN SubSeq(AfterScheme(url), 3 + Len(UrlNetloc(url)), Len(AfterScheme(url)))
  ELSE AfterScheme(url)

UrlPath(url) == BeforeAny(AfterNetloc(url), {"?", "#"})

\* the public suffix list, as far as the hosts of the model need it
PublicSuffixes == {<<"io">>, <<"uk">>, <<"co", "uk">>}

\* tldextract's netloc: drop "scheme://", cut at '/', '?', '#', drop the
\* userinfo up to the last '@' and the port from the first ':'
SchemeDropped(url) ==
  IF SchemeEnd(url) > 0 /\ HasNetloc(url)
  THEN SubSeq(AfterScheme(url), 3, Len(AfterScheme(url)))
  ELSE IF StartsWith(url, <<"/", "/">>) THEN SubSeq(url, 3, Len(url))
  ELSE url

LenientNetloc(url) ==
  RStrip(Strip(BeforeAny(AfterLast(BeforeAny(SchemeDropped(url), {"/", "?", "#"}),
                                   {"@"}),
                         {":"}),
               Whitespace),
         {"."})

\* number of trailing labels that form the longest public suffix
SuffixLen(labels) ==
  LET ks == {k \in 1..Len(labels) :
               SubSeq(labels, Len(labels) - k + 1, Len(labels)) \in PublicSuffixes}
  IN  IF ks = {} THEN 0 ELSE CHOOSE k \in ks : \A j \in ks : j <= k

\* the label before the k labels of the suffix, a dot, the suffix
DomainDotSuffix(labels, k) ==
  (IF Len(labels) - k >= 1 THEN labels[Len(labels) - k] ELSE <<>>)
  \o <<".">> \o Join(SubSeq(labels, Len(labels) - k + 1, Len(labels)), <<".">>)

RegistrableDomain(labels) == DomainDotSuffix(labels, SuffixLen(labels))

\* f"{ext.domain}.{ext.suffix}"
get_domain(url) == RegistrableDomain(SplitChar(LenientNetloc(url), "."))

\* urljoin's path resolution: '.' and '..' segments
RECURSIVE ResolveDots(_, _)
ResolveDots(segments, acc) ==
  IF segments = <<>> THEN acc
  ELSE IF segments[1] = <<".", ".">>
       THEN ResolveDots(Tail(segments), SubSeq(acc, 1, Len(acc) - 1))
  ELSE IF segments[1] = <<".">> THEN ResolveDots(Tail(segments), acc)
  ELSE ResolveDots(Tail(segments), Append(acc, segments[1]))

\* base_parts: the base path split at '/', without its last segment unless
\* that is empty
BaseParts(bsplit) ==
  IF bsplit[Len(bsplit)] # <<>> THEN SubSeq(bsplit, 1, Len(bsplit) - 1) ELSE bsplit

\* segments[1:-1] = filter(None, segments[1:-1])
DropInnerEmpty(joined) ==
  IF Len(joined) <= 2 THEN joined
  ELSE <<joined[1]>> \o Without(SubSeq(joined, 2, Len(joined) - 1), <<>>)
       \o <<joined[Len(joined)]>>

Segments(bpath, path) ==
  IF StartsWith(path, <<"/">>) THEN SplitChar(path, "/")
  ELSE DropInnerEmpty(BaseParts(SplitChar(bpath, "/")) \o SplitChar(path, "/"))

\* a trailing '.' or '..' leaves a directory: the resolved path ends in '/'
ResolvedPath(segments) ==
  ResolveDots(segments, <<>>)
  \o (IF segments[Len(segments)] \in {<<".">>, <<".", ".">>} THEN << <<>> >> ELSE <<>>)

\* '/'.join(resolved_path) or '/', and urlunparse puts a '/' between the
\* netloc and a path that lacks it
Rooted(slashed) ==
  IF slashed = <<>> THEN <<"/">>
  ELSE IF StartsWith(slashed, <<"/">>) THEN slashed
  ELSE <<"/">> \o slashed

JoinedPath(bpath, path) ==
  IF path = <<>> THEN bpath
  ELSE Rooted(Join(ResolvedPath(Segments(bpath, path)), <<"/">>))

\* urljoin(base, url) for references without params, query or fragment
urljoin(base, url) ==
  IF base = <<>> THEN url
  ELSE IF url = <<>> THEN base
  ELSE IF SchemeEnd(url) > 0 /\ UrlScheme(url) # UrlScheme(base) THEN url
  ELSE IF UrlScheme(base) \notin {HTTP, HTTP \o <<"s">>, <<"f", "t", "p">>} THEN url
  ELSE IF UrlNetloc(url) # <<>>
       THEN IF SchemeEnd(url) > 0 THEN url ELSE UrlScheme(base) \o <<":">> \o url
  ELSE UrlScheme(base) \o <<":", "/", "/">> \o UrlNetloc(base)
       \o JoinedPath(UrlPath(base), UrlPath(url))

\* urljoin parses the reference first and lets a ValueError escape
UrlJoinRaises(base, url) ==
  base # <<>> /\ url # <<>> /\ (UrlParseRaises(base) \/ UrlParseRaises(url))

(***************************************************************************)
(* Resilient tabular parser: safe_parse_csv with csv.reader, csv.DictReader *)
(***************************************************************************)
QUESTION == <<"q", "u", "e", "s", "t", "i", "o", "n">>
ANSWER == <<"a", "n", "s", "w", "e", "r">>
CSV == <<"c", "s", "v">>
\* the backquote, which a TLA+ string cannot hold, is written ^
TICK == "^"
FENCE == <<TICK, TICK, TICK>>
HEADER == QUESTION \o <<",">> \o ANSWER

Uppers ==
  <<"A", "B", "C", "D", "E", "F", "G", "H", "I", "J", "K", "L", "M",
    "N", "O", "P", "Q", "R", "S", "T", "U", "V", "W", "X", "Y", "Z">>

Lowers ==
  <<"a", "b", "c", "d", "e", "f", "g", "h", "i", "j", "k", "l", "m",
    "n", "o", "p", "q", "r", "s", "t", "u", "v", "w", "x", "y", "z">>

\* str.lower()
Lower(s) ==
  [i \in 1..Len(s) |->
     IF \E k \in 1..26 : Uppers[k] = s[i]
     THEN Lowers[CHOOSE k \in 1..26 : Uppers[k] = s[i]]
     ELSE s[i]]

\* s.split(sep)[-1]: what follows the last occurrence of sep, all of s if none
SplitLast(s, sep) ==
  LET at == {i \in 1..(Len(s) - Len(sep) + 1) : SubSeq(s, i, i + Len(sep) - 1) = sep}
  IN  IF at = {} THEN s
      ELSE LET i == CHOOSE k \in at : \A j \in at : j <= k
           IN  SubSeq(s, i + Len(sep), Len(s))

\* str.splitlines() on text whose only line break is '\n'
SplitLines(s) ==
  IF s = <<>> THEN <<>>
  ELSE LET parts == SplitChar(s, "\n")
       IN  IF parts[Len(parts)] = <<>> THEN SubSeq(parts, 1, Len(parts) - 1)
           ELSE parts

\* [line for line in lines if ',' in line]
RECURSIVE CommaLines(_)
CommaLines(lines) ==
  IF lines = <<>> THEN <<>>
  ELSE (IF HasChar(lines[1], ",") THEN <<lines[1]>> ELSE <<>>) \o CommaLines(Tail(lines))

\* csv.reader (excel dialect, not strict): the parser state of one record
ParseReset == [state |-> "START_RECORD", field |-> <<>>, fields |-> <<>>]

SaveField(st) == [st EXCEPT !.fields = Append(st.fields, st.field), !.field = <<>>]

AddChar(st, c) == [st EXCEPT !.field = Append(st.field, c)]

\* parse_process_char for a character of the line
ProcessChar(st, c) ==
  CASE st.state \in {"START_RECORD", "START_FIELD"} ->
         IF c = "\"" THEN [st EXCEPT !.state = "IN_QUOTED_FIELD"]
         ELSE IF c = "," THEN [SaveField(st) EXCEPT !.state = "START_FIELD"]
         ELSE [AddChar(st, c) EXCEPT !.state = "IN_FIELD"]
    [] st.state = "IN_FIELD" ->
         IF c = "," THEN [SaveField(st) EXCEPT !.state = "START_FIELD"]
         ELSE AddChar(st, c)
    [] st.state = "IN_QUOTED_FIELD" ->
         IF c = "\"" THEN [st EXCEPT !.state = "QUOTE_IN_QUOTED_FIELD"]
         ELSE AddChar(st, c)
    [] st.state = "QUOTE_IN_QUOTED_FIELD" ->
         IF c = "\"" THEN [AddChar(st, c) EXCEPT !.state = "IN_QUOTED_FIELD"]
         ELSE IF c = "," THEN [SaveField(st) EXCEPT !.state = "START_FIELD"]
         ELSE [AddChar(st, c) EXCEPT !.state = "IN_FIELD"]

\* parse_process_char for the end of the line
ProcessEOL(st) ==
  CASE st.state = "START_RECORD" -> st
    [] st.state \in {"START_FIELD", "IN_FIELD", "QUOTE_IN_QUOTED_FIELD"} ->
         [SaveField(st) EXCEPT !.state = "START_RECORD"]
    [] st.state = "IN_QUOTED_FIELD" -> st

RECURSIVE ProcessLine(_, _)
ProcessLine(st, line) ==
  IF line = <<>> THEN ProcessEOL(st)
  ELSE ProcessLine(ProcessChar(st, line[1]), Tail(line))

\* list(csv.reader(lines)): a record ends with the line on which the parser
\* is back in START_RECORD; the end of the input closes an open quoted field
RECURSIVE ReadRows(_, _, _)
RECURSIVE AfterLine(_, _, _)
ReadRows(lines, st, rows) ==
  IF lines = <<>>
  THEN IF st.field # <<>> \/ st.state = "IN_QUOTED_FIELD"
       THEN Append(rows, SaveField(st).fields)
       ELSE rows
  ELSE AfterLine(Tail(lines), ProcessLine(st, lines[1]), rows)

\* st is the parser after a line, lines what is left to read
AfterLine(lines, st, rows) ==
  IF st.state = "START_RECORD"
  THEN ReadRows(lines, ParseReset, Append(rows, st.fields))
  ELSE ReadRows(lines, st, rows)

csv_reader(lines) == ReadRows(lines, ParseReset, <<>>)

\* one dict of csv.DictReader: dict(zip(fieldnames, row)), the surplus of a
\* long row under the key None (rest), None for the fields a short row lacks
DictRow(fieldnames, row) ==
  LET lf == Len(fieldnames)
      lr == Len(row)
  IN  [fields |->
         [k \in Range(fieldnames) |->
            LET i == CHOOSE n \in 1..lf :
                       fieldnames[n] = k /\ \A m \in 1..lf : fieldnames[m] = k => m <= n
            IN  IF i <= lr THEN row[i] ELSE None],
       rest |-> SubSeq(row, lf + 1, lr)]

\* list(csv.DictReader(lines)): the first row is the header, empty rows are
\* skipped
DictRows(fieldnames, data) == [i \in 1..Len(data) |-> DictRow(fieldnames, data[i])]

HeaderAndData(rows) ==
  IF rows = <<>> THEN <<>> ELSE DictRows(rows[1], Without(Tail(rows), <<>>))

DictReader(lines) == HeaderAndData(csv_reader(lines))

\* "question" in row
HasKey(row, key) == key \in DOMAIN row.fields

\* raw_csv.strip().strip(backquote).split("csv")[-1].strip() behind a fence
Unfenced(stripped) ==
  IF StartsWith(stripped, FENCE)
  THEN Strip(SplitLast(Strip(stripped, {TICK}), CSV), Whitespace)
  ELSE stripped

\* lines 319-321
Unfence(raw_csv) == Unfenced(Strip(raw_csv, Whitespace))

HeaderMissing(lines) ==
  \/ lines = <<>>
  \/ ~Contains(Lower(lines[1]), QUESTION)
  \/ ~Contains(Lower(lines[1]), ANSWER)

mutant_WithHeader(lines) == lines

\* lines 323-326
WithHeader(lines) == IF HeaderMissing(lines) THEN <<HEADER>> \o lines ELSE lines

\* the try block of safe_parse_csv: exc tells that it raised (AttributeError
\* on a value that is no str, ValueError on a parse that lacks the columns)
Validated(faqs) ==
  IF faqs = <<>> \/ ~HasKey(faqs[1], QUESTION) \/ ~HasKey(faqs[1], ANSWER)
  THEN [exc |-> TRUE, faqs |-> <<>>]
  ELSE [exc |-> FALSE, faqs |-> faqs]

ParseBody(raw_csv) ==
  IF raw_csv = None THEN [exc |-> TRUE, faqs |-> <<>>]
  ELSE Validated(DictReader(CommaLines(WithHeader(SplitLines(Unfence(raw_csv))))))

\* except Exception: return []
Caught(body) == IF body.exc THEN [exc |-> FALSE, faqs |-> <<>>] ELSE body

mutant_safe_parse_csv(raw_csv) == ParseBody(raw_csv)

\* safe_parse_csv with its except clause: exc tells that an exception left it
safe_parse_csv(raw_csv) == Caught(ParseBody(raw_csv))

(***************************************************************************)
(* The environment: the web the crawler fetches from, the seeds submitted, *)
(* and what the generator may answer for a page.                           *)
(***************************************************************************)
U_D == <<"h", "t", "t", "p", ":", "/", "/", "a", ".", "i", "o", "/", "d", "/">>
U_DA == <<"h", "t", "t", "p", ":", "/", "/", "a", ".", "i", "o", "/", "d", "/", "a">>
U_DB == <<"h", "t", "t", "p", ":", "/", "/", "a", ".", "i", "o", "/", "d", "/", "b">>
U_DC == <<"h", "t", "t", "p", ":", "/", "/", "a", ".", "i", "o", "/", "d", "/", "c">>
U_DE == <<"h", "t", "t", "p", ":", "/", "/", "a", ".", "i", "o", "/", "d", "/", "e">>
U_DF == <<"h", "t", "t", "p", ":", "/", "/", "a", ".", "i", "o", "/", "d", "/", "f">>
U_BLOG == <<"h", "t", "t", "p", ":", "/", "/", "a", ".", "i", "o", "/", "b", "l", "o", "g">>
U_OTHER == <<"h", "t", "t", "p", ":", "/", "/", "b", ".", "i", "o", "/", "x">>
U_ROOT == <<"h", "t", "t", "p", "s", ":", "/", "/", "a", ".", "i", "o", "/">>
U_BARE == <<"h", "t", "t", "p", "s", ":", "/", "/", "a", ".", "i", "o">>
U_RX == <<"h", "t", "t", "p", "s", ":", "/", "/", "a", ".", "i", "o", "/", "x">>
U_WY == <<"h", "t", "t", "p", "s", ":", "/", "/", "w", ".", "a", ".", "i", "o", "/", "y">>
U_HX == <<"h", "t", "t", "p", "x", ":", "/", "/", "a", ".", "i", "o", "/", "z">>
U_UKA == <<"h", "t", "t", "p", ":", "/", "/", "a", ".", "c", "o", ".", "u", "k", "/">>
U_UKB == <<"h", "t", "t", "p", ":", "/", "/", "b", ".", "c", "o", ".", "u", "k", "/">>
U_UKP == <<"h", "t", "t", "p", ":", "/", "/", "a", ".", "c", "o", ".", "u", "k", "/", "p">>
U_FTP == <<"f", "t", "p", ":", "/", "/", "a", ".", "i", "o", "/">>
U_NOTES == <<"h", "t", "t", "p", "-", "n", "o", "t", "e", "s">>

\* the pages that exist: the href attributes of their a tags in document
\* order, and their text
Web ==
  (U_D :> [links |-> <<<<"a">>, <<"/", "b", "l", "o", "g">>, U_OTHER, U_DB>>, text |-> <<"d", "o", "c", "s">>])
  @@ (U_DA :> [links |-> <<U_DC, <<"/", "d", "/">>, <<"b">>>>, text |-> <<"a">>])
  @@ (U_DB :> [links |-> <<<<"e">>, <<"h", "t", "t", "p", ":", "/", "/", "[", "v", "6", "/">>, <<"f">>>>, text |-> <<"b">>])
  @@ (U_DC :> [links |-> <<<<"/", "d", "/", "a">>>>, text |-> <<"c">>])
  @@ (U_DE :> [links |-> <<>>, text |-> <<"e">>])
  @@ (U_DF :> [links |-> <<>>, text |-> <<"f">>])
  @@ (U_BLOG :> [links |-> <<U_D>>, text |-> <<"b", "l", "o", "g">>])
  @@ (U_OTHER :> [links |-> <<>>, text |-> <<"o", "t", "h", "e", "r">>])
  @@ (U_ROOT :> [links |-> <<U_BARE, <<"/", "x">>, U_WY, <<"m", "a", "i", "l", "t", "o", ":", "m", "@", "a", ".", "i", "o">>, U_HX>>, text |-> <<"r", "o", "o", "t">>])
  @@ (U_BARE :> [links |-> <<<<"/">>, <<"x">>>>, text |-> <<"r", "o", "o", "t">>])
  @@ (U_RX :> [links |-> <<U_ROOT>>, text |-> <<"x">>])
  @@ (U_WY :> [links |-> <<<<"/">>>>, text |-> <<"y">>])
  @@ (U_UKA :> [links |-> <<U_UKB, <<"/", "p">>>>, text |-> <<"u", "k", "a">>])
  @@ (U_UKB :> [links |-> <<>>, text |-> <<"u", "k", "b">>])
  @@ (U_UKP :> [links |-> <<U_UKA>>, text |-> <<"u", "k", "p">>])

Seeds == {U_D, U_ROOT, U_BARE, U_UKA, U_DE, U_FTP, U_NOTES, U_HX}

\* what the generator may return for a page, besides failing
SynthAnswers(page_url) ==
  CASE page_url = U_D -> {<<"^", "^", "^", "c", "s", "v", "\n", "q", "u", "e", "s", "t", "i", "o", "n", ",", "a", "n", "s", "w", "e", "r", "\n", "p", ",", "q", "\n", "^", "^", "^">>}
    [] page_url = U_DA -> {<<"u", ",", "v", "\n", "w", ",", "z">>}
    [] page_url = U_DB -> {<<"x", ",", "q", "u", "e", "s", "t", "i", "o", "n", ",", "a", "n", "s", "w", "e", "r", "\n", "a", ",", "b">>, <<>>}
    [] page_url = U_DC -> {<<"h", "e", "l", "l", "o">>}
    [] page_url = U_DE -> {<<"q", "u", "e", "s", "t", "i", "o", "n", ",", "a", "n", "s", "w", "e", "r", "\n", "a", ",", "b", ",", "c">>}
    [] page_url = U_ROOT -> {<<"a", "n", "s", "w", "e", "r", ",", "q", "u", "e", "s", "t", "i", "o", "n", "\n", "\"", "r", ",", "s", "\"", "\n", "t", ",", "\"", "u", "\"", "\"", "v", "\"">>}
    [] page_url = U_RX -> {<<"q", "u", "e", "s", "t", "i", "o", "n", ",", "a", "n", "s", "w", "e", "r", "\n", "m", ",", "n">>}
    [] page_url = U_WY -> {<<"Q", "u", "e", "s", "t", "i", "o", "n", ",", "A", "n", "s", "w", "e", "r", "\n", "c", ",", "d">>}
    [] page_url = U_UKA -> {<<"k", ",", "l">>}
    [] page_url = U_UKP -> {<<"^", "^", "^", "\n", "q", "u", "e", "s", "t", "i", "o", "n", ",", "a", "n", "s", "w", "e", "r", "\n", "g", ",", "h", "^", "^", "^">>}
    [] page_url = U_BARE -> {<<"q", "u", "e", "s", "t", "i", "o", "n", " ", "a", "n", "s", "w", "e", "r", "\n", "i", ",", "j", "\n", "k", ",", "l">>}
    [] OTHER -> {<<>>}

(***************************************************************************)
(* State: the background tasks in submission order, the responses the      *)
(* endpoint has returned, and the writes the storage bucket has received.  *)
(* parser holds one call of safe_parse_csv on its own, tol one pair of     *)
(* whole jobs run side by side.                                            *)
(***************************************************************************)
VARIABLES tasks, responses, uploads, parser, tol

vars == <<tasks, responses, uploads, parser, tol>>

HTTPS == HTTP \o <<"s">>

Statuses == {200, 204, 404}

Raised == [kind |-> "exception", status |-> 0, links |-> <<>>, text |-> <<>>]

Response(st, links, text) ==
  [kind |-> "response", status |-> st, links |-> links, text |-> text]

\* requests raises InvalidSchema or MissingSchema unless the URL is
\* http(s)://host...
Requestable(url) == UrlScheme(url) \in {HTTP, HTTPS} /\ UrlNetloc(url) # <<>>

\* requests.get(current_url, timeout=10): a response with a status, or an
\* exception (timeout, transport error, a URL that is not requestable)
FetchOutcomes(url) ==
  IF ~Requestable(url) THEN {Raised}
  ELSE IF url \in DOMAIN Web
  THEN {Raised, Response(200, Web[url].links, Web[url].text)}
       \cup {Response(st, <<>>, <<>>) : st \in Statuses \ {200}}
  ELSE {Raised, Response(404, <<>>, <<>>)}

mutant_FetchOk(o) == o.kind = "response"

\* requests.get returned and response.status_code is 200 (lines 264-266)
FetchOk(o) == o.kind = "response" /\ o.status = 200

\* parsed_root.path.rstrip("/") + "/"
BasePath(url) == RStrip(UrlPath(url), {"/"}) \o <<"/">>

mutant_ShouldEnqueue(t, absolute_url) ==
  /\ is_valid_url(absolute_url)
  /\ get_domain(absolute_url) = t.base_domain
  /\ absolute_url \notin t.visited
  /\ ~InList(absolute_url, t.to_visit)

\* the condition of lines 279-285
ShouldEnqueue(t, absolute_url) ==
  /\ is_valid_url(absolute_url)
  /\ get_domain(absolute_url) = t.base_domain
  /\ absolute_url \notin t.visited
  /\ ~InList(absolute_url, t.to_visit)
  /\ StartsWith(UrlPath(absolute_url), t.base_path)

\* to_visit.append(absolute_url); discovered and depth record in which order
\* and how deep in the crawl the links were found
Enqueue(t, absolute_url, current_url) ==
  [t EXCEPT !.to_visit = Append(@, absolute_url),
            !.discovered = Append(@, absolute_url),
            !.depth = @ @@ (absolute_url :> t.depth[current_url] + 1)]

\* the for loop of lines 274-286; an exception of urljoin or urlparse leaves
\* the loop for the except clause of line 288
\* seen records the links that reached the condition of line 279
Classify(t, absolute_url, current_url) ==
  IF ShouldEnqueue(t, absolute_url)
  THEN Enqueue([t EXCEPT !.seen = @ \cup {absolute_url}], absolute_url, current_url)
  ELSE [t EXCEPT !.seen = @ \cup {absolute_url}]

RECURSIVE ProcessLinks(_, _, _)
ProcessLinks(t, current_url, links) ==
  IF links = <<>> THEN t
  ELSE IF UrlJoinRaises(current_url, links[1]) THEN t
  ELSE IF UrlParseRaises(urljoin(current_url, links[1])) THEN t
  ELSE ProcessLinks(Classify(t, urljoin(current_url, links[1]), current_url),
                    current_url, Tail(links))

mutant_PopUrl(t) ==
  [url |-> t.to_visit[Len(t.to_visit)],
   rest |-> SubSeq(t.to_visit, 1, Len(t.to_visit) - 1)]

\* current_url = to_visit.pop(0)
PopUrl(t) == [url |-> Head(t.to_visit), rest |-> Tail(t.to_visit)]

mutant_MarkVisited(visited, current_url) == visited

\* visited.add(current_url)
MarkVisited(visited, current_url) == visited \cup {current_url}

\* lines 261-264: the URL is marked and requested; fetched is the log of
\* the requests, statuses the log of what they gave (0 for an exception)
Requested(t, current_url, o) ==
  [t EXCEPT !.visited = MarkVisited(@, current_url),
            !.fetched = Append(@, current_url),
            !.statuses = Append(@, o.status)]

\* lines 268-286
Scraped(t, current_url, o) ==
  ProcessLinks([t EXCEPT !.html_pages = Append(@, <<current_url, o.text>>)],
               current_url, o.links)

\* lines 259-290 on the task whose to_visit has lost current_url
Visit(t, current_url, o) ==
  IF current_url \in t.visited THEN [t EXCEPT !.skipped = @ + 1]
  ELSE IF ~FetchOk(o) THEN Requested(t, current_url, o)
  ELSE Scraped(Requested(t, current_url, o), current_url, o)

\* one iteration of the while loop of crawl_site, o being what the fetch gives
CrawlStep(t, o) == Visit([t EXCEPT !.to_visit = PopUrl(t).rest], PopUrl(t).url, o)

\* csv.writer with QUOTE_MINIMAL: None is written as the empty field, a field
\* with a delimiter, a quote or a line break is quoted, its quotes doubled
RECURSIVE DoubleQuotes(_)
DoubleQuotes(s) ==
  IF s = <<>> THEN <<>>
  ELSE (IF s[1] = "\"" THEN <<"\"", "\"">> ELSE <<s[1]>>) \o DoubleQuotes(Tail(s))

WriteField(v) ==
  IF v = None THEN <<>>
  ELSE IF \E i \in 1..Len(v) : v[i] \in {",", "\"", "\n", "\r"}
       THEN <<"\"">> \o DoubleQuotes(v) \o <<"\"">>
  ELSE v

WriteRow(values) ==
  Join([i \in 1..Len(values) |-> WriteField(values[i])], <<",">>) \o <<"\r", "\n">>

\* row.get(key, "")
RowGet(row, key) == IF HasKey(row, key) THEN row.fields[key] ELSE <<>>

\* {key: row.get(key, "") for key in fieldnames}, as its (key, value) items
CleanRow(row) == <<<<QUESTION, RowGet(row, QUESTION)>>, <<ANSWER, RowGet(row, ANSWER)>>>>

\* lines 383-386
CleanedFaqs(all_faqs) == [k \in 1..Len(all_faqs) |-> CleanRow(all_faqs[k])]

RECURSIVE WriteRows(_)
WriteRows(cleaned_faqs) ==
  IF cleaned_faqs = <<>> THEN <<>>
  ELSE WriteRow(<<cleaned_faqs[1][1][2], cleaned_faqs[1][2][2]>>)
       \o WriteRows(Tail(cleaned_faqs))

\* writer.writeheader(); writer.writerows(cleaned_faqs); csv_buffer.getvalue()
Serialize(cleaned_faqs) == WriteRow(<<QUESTION, ANSWER>>) \o WriteRows(cleaned_faqs)

\* the object key of line 391
ObjectKey == "faq/faq_scraped.csv"

\* the acknowledgment of line 396
Ack == "Scraping started in background."

\* background_tasks.add_task(scrape_and_generate_faqs_task, input_data.url):
\* the task before it runs
NewTask(url) ==
  [pc |-> "queued", url |-> url, result |-> "running",
   base_domain |-> <<>>, base_path |-> <<>>,
   to_visit |-> <<>>, visited |-> {}, html_pages |-> <<>>,
   fetched |-> <<>>, statuses |-> <<>>, discovered |-> <<>>, seen |-> {}, skipped |-> 0,
   depth |-> (url :> 0),
   i |-> 1, synthesized |-> <<>>, all_faqs |-> <<>>, cleaned_faqs |-> <<>>,
   upload_calls |-> 0]

Finish(t, result) == [t EXCEPT !.pc = "done", !.result = result]

\* lines 355-360 and 249-255: validation, and the crawl's initial state
StartStep(t) ==
  IF ~is_valid_url(t.url) THEN Finish(t, "invalid_url")
  ELSE IF UrlParseRaises(t.url) THEN Finish(t, "exception")
  ELSE [t EXCEPT !.pc = "crawl",
                 !.base_domain = get_domain(t.url),
                 !.base_path = BasePath(t.url),
                 !.to_visit = <<t.url>>]

\* if not pages
NoPages(pages) == pages = <<>>

\* the while loop has ended: return html_pages, and lines 362-366
ReturnStep(t) ==
  IF NoPages(t.html_pages) THEN Finish(t, "no_pages") ELSE [t EXCEPT !.pc = "synth"]

\* extract_faqs_from_text: the stripped content, or None when the call raised
SynthOutcomes(page_url) ==
  {None} \cup {Strip(a, Whitespace) : a \in SynthAnswers(page_url)}

mutant_Extended(t, parsed) ==
  IF parsed.exc THEN Finish(t, "exception") ELSE [t EXCEPT !.all_faqs = parsed.faqs \o @]

\* the body of the for loop of lines 368-373 on csv_text
Extended(t, parsed) ==
  IF parsed.exc THEN Finish(t, "exception") ELSE [t EXCEPT !.all_faqs = @ \o parsed.faqs]

mutant_SynthStep(t, csv_text) ==
  IF csv_text = None \/ csv_text = <<>>
  THEN Finish([t EXCEPT !.i = @ + 1, !.synthesized = Append(@, csv_text)], "exception")
  ELSE Extended([t EXCEPT !.i = @ + 1, !.synthesized = Append(@, csv_text)],
                safe_parse_csv(csv_text))

\* if csv_text: faqs = safe_parse_csv(csv_text); all_faqs.extend(faqs)
SynthStep(t, csv_text) ==
  IF csv_text = None \/ csv_text = <<>>
  THEN [t EXCEPT !.i = @ + 1, !.synthesized = Append(@, csv_text)]
  ELSE Extended([t EXCEPT !.i = @ + 1, !.synthesized = Append(@, csv_text)],
                safe_parse_csv(csv_text))

mutant_NoFaqs(all_faqs) == FALSE

\* if not all_faqs
NoFaqs(all_faqs) == all_faqs = <<>>

mutant_FinalStep(t, stored) ==
  IF NoFaqs(t.all_faqs) THEN Finish(t, "no_faqs")
  ELSE [t EXCEPT !.cleaned_faqs = CleanedFaqs(t.all_faqs),
                 !.upload_calls = @ + 1,
                 !.result = IF stored THEN "uploaded" ELSE "upload_failed"]

\* lines 375-391, stored telling whether upload_to_gcs stores the object or
\* raises HTTPException
FinalStep(t, stored) ==
  IF NoFaqs(t.all_faqs) THEN Finish(t, "no_faqs")
  ELSE Finish([t EXCEPT !.cleaned_faqs = CleanedFaqs(t.all_faqs),
                        !.upload_calls = @ + 1],
              IF stored THEN "uploaded" ELSE "upload_failed")

\* blob.upload_from_string(source_data) by task n
Stored(n, t) == [task |-> n, key |-> ObjectKey, data |-> Serialize(t.cleaned_faqs)]

ParserIdle == [pc |-> "idle", raw_csv |-> <<>>, result |-> [exc |-> FALSE, faqs |-> <<>>]]

TolIdle == [pc |-> "idle"]

Init ==
  /\ tasks = <<>>
  /\ responses = <<>>
  /\ uploads = <<>>
  /\ parser = ParserIdle
  /\ tol = TolIdle

\* scrape_endpoint: POST /scrape
Submit(url) ==
  /\ tasks = <<>>
  /\ tasks' = Append(tasks, NewTask(url))
  /\ responses' = Append(responses, Ack)
  /\ UNCHANGED <<uploads, parser, tol>>

\* scrape_and_generate_faqs_task up to the while loop of crawl_site
StartTask(n) ==
  /\ n \in DOMAIN tasks
  /\ tasks[n].pc = "queued"
  /\ tasks' = [tasks EXCEPT ![n] = StartStep(@)]
  /\ UNCHANGED <<responses, uploads, parser, tol>>

\* one iteration of the while loop of crawl_site
CrawlIter(n) ==
  /\ n \in DOMAIN tasks
  /\ tasks[n].pc = "crawl"
  /\ tasks[n].to_visit # <<>>
  /\ Len(tasks[n].fetched) < MaxFetches
  /\ \E o \in FetchOutcomes(PopUrl(tasks[n]).url) :
       tasks' = [tasks EXCEPT ![n] = CrawlStep(@, o)]
  /\ UNCHANGED <<responses, uploads, parser, tol>>

\* the while loop ends and crawl_site returns
CrawlReturn(n) ==
  /\ n \in DOMAIN tasks
  /\ tasks[n].pc = "crawl"
  /\ tasks[n].to_visit = <<>>
  /\ tasks' = [tasks EXCEPT ![n] = ReturnStep(@)]
  /\ UNCHANGED <<responses, uploads, parser, tol>>

\* one iteration of the for loop over pages
SynthPage(n) ==
  /\ n \in DOMAIN tasks
  /\ tasks[n].pc = "synth"
  /\ tasks[n].i <= Len(tasks[n].html_pages)
  /\ \E csv_text \in SynthOutcomes(tasks[n].html_pages[tasks[n].i][1]) :
       tasks' = [tasks EXCEPT ![n] = SynthStep(@, csv_text)]
  /\ UNCHANGED <<responses, uploads, parser, tol>>

\* the for loop has ended: lines 375-391
Finalize(n) ==
  /\ n \in DOMAIN tasks
  /\ tasks[n].pc = "synth"
  /\ tasks[n].i > Len(tasks[n].html_pages)
  /\ \E stored \in BOOLEAN :
       LET t == FinalStep(tasks[n], stored)
       IN  /\ tasks' = [tasks EXCEPT ![n] = t]
           /\ uploads' = IF t.result = "uploaded" THEN Append(uploads, Stored(n, t))
                         ELSE uploads
  /\ UNCHANGED <<responses, parser, tol>>

Next ==
  \/ \E url \in Seeds : Submit(url)
  \/ \E n \in DOMAIN tasks : StartTask(n)
  \/ \E n \in DOMAIN tasks : CrawlIter(n)
  \/ \E n \in DOMAIN tasks : CrawlReturn(n)
  \/ \E n \in DOMAIN tasks : SynthPage(n)
  \/ \E n \in DOMAIN tasks : Finalize(n)

Spec == Init /\ [][Next]_vars

(***************************************************************************)
(* safe_parse_csv on its own: one call on an input put together from at    *)
(* most MaxPieces pieces, or on a value that is no str                     *)
(***************************************************************************)
Pieces ==
  {FENCE, CSV, <<"\n">>, <<",">>, <<"\"">>, <<" ">>, <<"x">>,
   HEADER,
   <<"Q", "u", "e", "s", "t", "i", "o", "n", ",", "A", "N", "S", "W", "E", "R">>,
   <<"y", ",", "z">>,
   <<"c", "s", "v", ",", "w">>}

RECURSIVE Flatten(_)
Flatten(ps) == IF ps = <<>> THEN <<>> ELSE ps[1] \o Flatten(Tail(ps))

RawInputs ==
  {None} \cup {Flatten(ps) : ps \in UNION {[1..k -> Pieces] : k \in 0..MaxPieces}}

ParserInit ==
  /\ tasks = <<>>
  /\ responses = <<>>
  /\ uploads = <<>>
  /\ tol = TolIdle
  /\ \E raw_csv \in RawInputs : parser = [ParserIdle EXCEPT !.pc = "input", !.raw_csv = raw_csv]

\* a call safe_parse_csv(raw_csv)
ParseCsv ==
  /\ parser.pc = "input"
  /\ parser' = [parser EXCEPT !.pc = "parsed", !.result = safe_parse_csv(parser.raw_csv)]
  /\ UNCHANGED <<tasks, responses, uploads, tol>>

ParserSpec == ParserInit /\ [][ParseCsv]_vars

\* safe_parse_csv on inputs without a fence, put together from lines with
\* and without a header, a comma or a quote
HeaderPieces ==
  {<<"\n">>, <<",">>, <<"\"">>, <<"x">>,
   HEADER,
   <<"Q", "u", "e", "s", "t", "i", "o", "n", ",", "A", "N", "S", "W", "E", "R">>,
   <<"q", "u", "e", "s", "t", "i", "o", "n", " ", "a", "n", "s", "w", "e", "r">>,
   <<"y", ",", "z">>}

HeaderInputs ==
  {Flatten(ps) : ps \in UNION {[1..k -> HeaderPieces] : k \in 0..MaxPieces}}

HeaderInit ==
  /\ tasks = <<>>
  /\ responses = <<>>
  /\ uploads = <<>>
  /\ tol = TolIdle
  /\ \E raw_csv \in HeaderInputs : parser = [ParserIdle EXCEPT !.pc = "input", !.raw_csv = raw_csv]

HeaderSpec == HeaderInit /\ [][ParseCsv]_vars

(***************************************************************************)
(* Two whole jobs side by side: on a web where page P answers with a       *)
(* status other than 200, and on the same web without P and the links to   *)
(* P.  The generator is a function of the page; the pages in down raise on *)
(* fetch, the generator fails on those in mute.                            *)
(***************************************************************************)
\* the absolute URLs the pages of the web link to
LinkTargets ==
  UNION {{urljoin(p, Web[p].links[k]) :
            k \in {j \in 1..Len(Web[p].links) : ~UrlJoinRaises(p, Web[p].links[j])}} :
         p \in DOMAIN Web}

Universe == Seeds \cup DOMAIN Web \cup LinkTargets

DownChoices == {{}, {U_DA}, {U_DB}, {U_RX}, {U_DC, U_WY}}

MuteChoices == {{}, {U_D}, {U_DA, U_ROOT}}

\* what a fetch of url gives when the pages in down are unreachable
Live(url, down) ==
  IF ~Requestable(url) \/ url \in down THEN Raised
  ELSE IF url \in DOMAIN Web THEN Response(200, Web[url].links, Web[url].text)
  ELSE Response(404, <<>>, <<>>)

\* the hrefs of a page at base that do not resolve to P
RECURSIVE LinksNotTo(_, _, _)
LinksNotTo(base, links, P) ==
  IF links = <<>> THEN <<>>
  ELSE (IF ~UrlJoinRaises(base, links[1]) /\ urljoin(base, links[1]) = P
        THEN <<>> ELSE <<links[1]>>)
       \o LinksNotTo(base, Tail(links), P)

\* the web on which P answers with status
WithFailing(P, status, down) ==
  [url \in Universe |-> IF url = P THEN Response(status, <<>>, <<>>) ELSE Live(url, down)]

\* the web without P and without the links to P
WithoutPage(P, down) ==
  [url \in Universe |->
     IF url = P THEN Response(404, <<>>, <<>>)
     ELSE [Live(url, down) EXCEPT !.links = LinksNotTo(url, @, P)]]

\* a deterministic generator that fails on the pages in mute
Generator(mute) ==
  [url \in Universe |->
     IF url \in mute THEN None
     ELSE Strip(CHOOSE a \in SynthAnswers(url) : TRUE, Whitespace)]

\* the while loop of crawl_site, run to its end on the web oc
RECURSIVE RunCrawl(_, _)
RunCrawl(t, oc) ==
  IF t.to_visit = <<>> THEN t ELSE RunCrawl(CrawlStep(t, oc[PopUrl(t).url]), oc)

\* the for loop over pages, run to its end with the generator synth
RECURSIVE RunSynth(_, _)
RunSynth(t, synth) ==
  IF t.pc # "synth" \/ t.i > Len(t.html_pages) THEN t
  ELSE RunSynth(SynthStep(t, synth[t.html_pages[t.i][1]]), synth)

\* scrape_and_generate_faqs_task(url) from start to end, the upload storing
Crawled(t, oc) == IF t.pc = "crawl" THEN ReturnStep(RunCrawl(t, oc)) ELSE t

Finalized(t) == IF t.pc = "synth" THEN FinalStep(t, TRUE) ELSE t

RunJob(url, oc, synth) ==
  Finalized(RunSynth(Crawled(StartStep(NewTask(url)), oc), synth))

TolInit ==
  /\ tasks = <<>>
  /\ responses = <<>>
  /\ uploads = <<>>
  /\ parser = ParserIdle
  /\ \E seed \in Seeds, P \in DOMAIN Web, status \in Statuses \ {200},
        down \in DownChoices, mute \in MuteChoices :
       tol = [pc |-> "input", seed |-> seed, P |-> P, status |-> status,
              down |-> down \ {P}, mute |-> mute]

\* both jobs are run
RunBoth ==
  /\ tol.pc = "input"
  /\ tol' = [pc |-> "done", seed |-> tol.seed, P |-> tol.P, status |-> tol.status,
             down |-> tol.down, mute |-> tol.mute,
             failing |-> RunJob(tol.seed, WithFailing(tol.P, tol.status, tol.down),
                                Generator(tol.mute)),
             absent |-> RunJob(tol.seed, WithoutPage(tol.P, tol.down),
                               Generator(tol.mute))]
  /\ UNCHANGED <<tasks, responses, uploads, parser>>

TolSpec == TolInit /\ [][RunBoth]_vars

\* the crawl loop and the return of crawl_site run to completion: every
\* fetch ends within its timeout
TaskIds == 1..MaxTasks

FairSpec ==
  Spec /\ \A n \in TaskIds : WF_vars(CrawlIter(n)) /\ WF_vars(CrawlReturn(n))

(***************************************************************************)
(* The service under several submissions: scrape_endpoint and the task are *)
(* plain functions, which the framework runs on worker threads, so a       *)
(* request is answered and its task started while the tasks of earlier     *)
(* requests are running; nothing in main.py makes a task wait for another. *)
(***************************************************************************)
ServiceSeeds == {U_DE, U_FTP}

\* scrape_endpoint: POST /scrape, whatever the earlier tasks are doing
Post(url) ==
  /\ Len(tasks) < MaxTasks
  /\ tasks' = Append(tasks, NewTask(url))
  /\ responses' = Append(responses, Ack)
  /\ UNCHANGED <<uploads, parser, tol>>

ServiceNext ==
  \/ \E url \in ServiceSeeds : Post(url)
  \/ \E n \in DOMAIN tasks : StartTask(n)
  \/ \E n \in DOMAIN tasks : CrawlIter(n)
  \/ \E n \in DOMAIN tasks : CrawlReturn(n)
  \/ \E n \in DOMAIN tasks : SynthPage(n)
  \/ \E n \in DOMAIN tasks : Finalize(n)

ServiceSpec == Init /\ [][ServiceNext]_vars

(***************************************************************************)
(* Properties                                                              *)
(***************************************************************************)
NoDuplicates(s) == \A i, j \in 1..Len(s) : s[i] = s[j] => i = j

PageUrls(t) == [k \in 1..Len(t.html_pages) |-> t.html_pages[k][1]]

CrawlOver(t) == t.pc \notin {"queued", "crawl"}

\* C1: in one run of crawl_site no URL is fetched more than once, and every
\* URL of the page list is there exactly once and is in the visited set.
AtMostOnceVisitation ==
  \A n \in DOMAIN tasks :
    /\ NoDuplicates(tasks[n].fetched)
    /\ NoDuplicates(PageUrls(tasks[n]))
    /\ Range(PageUrls(tasks[n])) \subseteq tasks[n].visited

\* a crawl of three pages in which a link back to the seed was met
AtMostOnceWitness ==
  \E n \in DOMAIN tasks :
    /\ CrawlOver(tasks[n])
    /\ Len(tasks[n].html_pages) >= 3
    /\ tasks[n].url \in tasks[n].seen

\* the seed path with exactly one trailing '/'
IsNormalizedPrefix(prefix, path) ==
  /\ prefix # <<>>
  /\ prefix[Len(prefix)] = "/"
  /\ Len(prefix) > 1 => prefix[Len(prefix) - 1] # "/"
  /\ \E k \in 0..Len(path) :
       /\ SubSeq(prefix, 1, Len(prefix) - 1) = SubSeq(path, 1, k)
       /\ \A j \in (k + 1)..Len(path) : path[j] = "/"

Confined(t, link) ==
  /\ get_domain(link) = get_domain(t.url)
  /\ StartsWith(UrlPath(link), t.base_path)

\* C2: every link that crawl_site enqueues has the registrable domain of the
\* seed and a path that starts with the seed path normalized to one trailing
\* '/'; so has every fetched URL other than the seed.
Confinement ==
  \A n \in DOMAIN tasks :
    tasks[n].pc \notin {"queued"} /\ tasks[n].result # "invalid_url" =>
      /\ IsNormalizedPrefix(tasks[n].base_path, UrlPath(tasks[n].url))
      /\ \A k \in 1..Len(tasks[n].discovered) : Confined(tasks[n], tasks[n].discovered[k])
      /\ \A k \in 1..Len(tasks[n].fetched) :
           tasks[n].fetched[k] # tasks[n].url => Confined(tasks[n], tasks[n].fetched[k])

\* a crawl under /d/ that met a link outside the sub-tree and a link to
\* another domain, and enqueued some link
ConfinementWitness ==
  \E n \in DOMAIN tasks :
    /\ tasks[n].base_path = <<"/", "d", "/">>
    /\ {U_BLOG, U_OTHER} \subseteq tasks[n].seen
    /\ Len(tasks[n].fetched) >= 3

\* C3: with a seed whose path is empty or '/', every classified link that is
\* fetchable and has the seed's registrable domain is enqueued unless it is
\* already visited or queued, whatever its path.
RootSeedNoRestriction ==
  \A n \in DOMAIN tasks :
    tasks[n].pc = "crawl" /\ UrlPath(tasks[n].url) \in {<<>>, <<"/">>} =>
      \A link \in tasks[n].seen :
        is_valid_url(link) /\ get_domain(link) = tasks[n].base_domain =>
          link \in tasks[n].visited \/ InList(link, tasks[n].to_visit)

\* C4: URLs are dequeued in the order they were enqueued, Pages are emitted
\* in dequeue order, and nothing found at depth d+1 is fetched or emitted
\* before something found at depth d.
BFSOrder ==
  \A n \in DOMAIN tasks :
    LET t     == tasks[n]
        order == <<t.url>> \o t.discovered
    IN  t.pc \notin {"queued"} /\ t.result # "invalid_url" =>
          /\ t.fetched = SubSeq(order, 1, Len(t.fetched))
          /\ \E pick \in SUBSET (1..Len(t.fetched)) :
               /\ Cardinality(pick) = Len(t.html_pages)
               /\ \A k \in 1..Len(t.html_pages) :
                    \E f \in pick :
                      /\ t.fetched[f] = t.html_pages[k][1]
                      /\ Cardinality({g \in pick : g < f}) = k - 1
          /\ \A i, j \in 1..Len(t.fetched) :
               i < j => t.depth[t.fetched[i]] <= t.depth[t.fetched[j]]
          /\ \A i, j \in 1..Len(t.html_pages) :
               i < j => t.depth[t.html_pages[i][1]] <= t.depth[t.html_pages[j][1]]
          /\ \A i \in 1..Len(t.fetched), j \in 1..Len(t.to_visit) :
               t.depth[t.fetched[i]] <= t.depth[t.to_visit[j]]

\* the seed's links a and b were both emitted, and so was a page found on one
\* of them
BFSOrderWitness ==
  \E n \in DOMAIN tasks :
    /\ {U_DA, U_DB} \subseteq Range(PageUrls(tasks[n]))
    /\ \E k \in 1..Len(tasks[n].html_pages) : tasks[n].depth[tasks[n].html_pages[k][1]] = 2

\* every page was synthesized and none gave a record
EveryPageEmpty(t) ==
  /\ Len(t.synthesized) = Len(t.html_pages)
  /\ \A k \in 1..Len(t.synthesized) :
       \/ t.synthesized[k] \in {None, <<>>}
       \/ safe_parse_csv(t.synthesized[k]).faqs = <<>>

\* C6: when the crawl returns zero pages, or every page's synthesis and parse
\* give zero records, the job never calls the storage upload.
NoUploadOnJobFailure ==
  \A n \in DOMAIN tasks :
    (CrawlOver(tasks[n]) /\ tasks[n].html_pages = <<>>) \/ EveryPageEmpty(tasks[n]) =>
      /\ tasks[n].upload_calls = 0
      /\ \A k \in 1..Len(uploads) : uploads[k].task # n

\* a finished job whose two or more pages all gave zero records, one of them
\* by a response that did not parse
NoUploadWitness ==
  \E n \in DOMAIN tasks :
    /\ tasks[n].pc = "done"
    /\ Len(tasks[n].html_pages) >= 2
    /\ EveryPageEmpty(tasks[n])
    /\ \E k \in 1..Len(tasks[n].synthesized) : tasks[n].synthesized[k] \notin {None, <<>>}

\* C7: a submission whose seed fails validation is answered with an error
\* and not with the acknowledgment, and nothing downstream runs for it.
InputErrorSynchronous ==
  \A n \in DOMAIN tasks :
    ~is_valid_url(tasks[n].url) =>
      /\ responses[n] # Ack
      /\ tasks[n].fetched = <<>>
      /\ tasks[n].synthesized = <<>>
      /\ tasks[n].upload_calls = 0

\* C9: every record handed to the serializer has the two fields question and
\* answer in that order, each a string: the parsed row's value, or the empty
\* string for a field the parsed row lacks.
SchemaStability ==
  \A n \in DOMAIN tasks :
    \A k \in 1..Len(tasks[n].cleaned_faqs) :
      LET rec == tasks[n].cleaned_faqs[k]
          row == tasks[n].all_faqs[k]
      IN  /\ Len(rec) = 2
          /\ rec[1][1] = QUESTION
          /\ rec[2][1] = ANSWER
          /\ \A f \in 1..2 :
               /\ rec[f][2] # None
               /\ rec[f][2] = (IF HasKey(row, rec[f][1]) /\ row.fields[rec[f][1]] # None
                               THEN row.fields[rec[f][1]]
                               ELSE <<>>)

InScope(seed) ==
  {u \in LinkTargets :
     /\ is_valid_url(u)
     /\ get_domain(u) = get_domain(seed)
     /\ StartsWith(UrlPath(u), BasePath(seed))}

\* C10: crawl_site empties its frontier and returns, after at most as many
\* fetches as there are distinct in-scope URLs, plus the seed.
CrawlTerminates ==
  /\ [](\A n \in DOMAIN tasks :
          Len(tasks[n].fetched) <= Cardinality(InScope(tasks[n].url) \cup {tasks[n].url}))
  /\ \A n \in TaskIds :
       (n \in DOMAIN tasks /\ tasks[n].pc = "crawl")
         ~> (n \in DOMAIN tasks /\ CrawlOver(tasks[n]) /\ tasks[n].to_visit = <<>>)

\* a crawl that has returned after five fetches, some of which failed
CrawlTerminatesWitness ==
  \E n \in DOMAIN tasks :
    /\ CrawlOver(tasks[n])
    /\ tasks[n].to_visit = <<>>
    /\ Len(tasks[n].fetched) = 5
    /\ Len(tasks[n].html_pages) < 5

\* C5: with a deterministic synthesizer, the job on a site where page P
\* answers with a non-200 status gives the same FaqTable, records and order,
\* as the job on the site without P and the links to P, and ends the same
\* way: it does not fail because of P alone.
PartialFailureTolerance ==
  tol.pc = "done" =>
    /\ tol.failing.html_pages = tol.absent.html_pages
    /\ tol.failing.all_faqs = tol.absent.all_faqs
    /\ tol.failing.cleaned_faqs = tol.absent.cleaned_faqs
    /\ tol.failing.result = tol.absent.result

\* P was fetched, has links the crawl did not get to see, and the job still
\* uploaded a table of two records or more
PartialFailureWitness ==
  /\ tol.pc = "done"
  /\ tol.P # tol.seed
  /\ InList(tol.P, tol.failing.fetched)
  /\ Web[tol.P].links # <<>>
  /\ tol.failing.result = "uploaded"
  /\ Len(tol.failing.cleaned_faqs) >= 2

\* no line of the input has a field separator
Garbage(raw_csv) == ~HasChar(raw_csv, ",")

\* C8: for every input safe_parse_csv returns a sequence of records and lets
\* no exception out; for an empty or all-garbage input the sequence is empty.
ParserNeverFails ==
  parser.pc = "parsed" =>
    /\ ~parser.result.exc
    /\ DOMAIN parser.result.faqs = 1..Len(parser.result.faqs)
    /\ Garbage(parser.raw_csv) => parser.result.faqs = <<>>

\* an input with a separator on which the try block raised
ParserNeverFailsWitness ==
  /\ parser.pc = "parsed"
  /\ HasChar(parser.raw_csv, ",")
  /\ ParseBody(parser.raw_csv).exc

\* the records the parser returned for the k-th page of the list
PageRecords(t, k) ==
  IF t.synthesized[k] \in {None, <<>>} THEN <<>> ELSE safe_parse_csv(t.synthesized[k]).faqs

\* the records of the first k pages, page after page
RECURSIVE Aggregate(_, _)
Aggregate(t, k) == IF k = 0 THEN <<>> ELSE Aggregate(t, k - 1) \o PageRecords(t, k)

\* where url stands in s
IndexIn(s, url) == CHOOSE i \in 1..Len(s) : s[i] = url

\* C11: the table that is serialized lists the records page after page in
\* the order the pages were discovered, and within a page in the order the
\* parser returned them, also when pages in between gave no record.
AggregateOrder ==
  \A n \in DOMAIN tasks :
    LET t     == tasks[n]
        order == <<t.url>> \o t.discovered
    IN  /\ t.result \in {"running", "no_faqs", "uploaded", "upload_failed"} =>
             t.all_faqs = Aggregate(t, Len(t.synthesized))
        /\ \A i, j \in 1..Len(t.html_pages) :
             i < j => IndexIn(order, t.html_pages[i][1]) < IndexIn(order, t.html_pages[j][1])
        /\ t.result \in {"uploaded", "upload_failed"} =>
             t.cleaned_faqs = CleanedFaqs(Aggregate(t, Len(t.html_pages)))
        /\ \A k \in 1..Len(uploads) :
             uploads[k].task = n =>
               uploads[k].data = Serialize(CleanedFaqs(Aggregate(t, Len(t.html_pages))))

\* an uploaded table with records of two pages between which a page gave none
AggregateOrderWitness ==
  \E n \in DOMAIN tasks :
    /\ tasks[n].result = "uploaded"
    /\ \E k \in 1..Len(uploads) : uploads[k].task = n
    /\ \E i, j, k \in 1..Len(tasks[n].html_pages) :
         /\ i < j /\ j < k
         /\ Len(PageRecords(tasks[n], i)) >= 2
         /\ PageRecords(tasks[n], j) = <<>>
         /\ PageRecords(tasks[n], k) # <<>>

\* the text between the fence that opens the stripped input and the fence
\* that closes it
Inner(raw_csv) ==
  SubSeq(Strip(raw_csv, Whitespace), 4, Len(Strip(raw_csv, Whitespace)) - 3)

\* a fenced code block: an opening fence, a language tag or none, a line
\* break, the content, a closing fence
IsFencedBlock(raw_csv) ==
  /\ raw_csv # None
  /\ Len(Strip(raw_csv, Whitespace)) >= 6
  /\ StartsWith(Strip(raw_csv, Whitespace), FENCE)
  /\ SubSeq(Strip(raw_csv, Whitespace), Len(Strip(raw_csv, Whitespace)) - 2,
            Len(Strip(raw_csv, Whitespace))) = FENCE
  /\ ~HasChar(Inner(raw_csv), TICK)
  /\ HasChar(Inner(raw_csv), "\n")
  /\ \A i \in 1..(FirstOf(Inner(raw_csv), {"\n"}) - 1) : Inner(raw_csv)[i] \in Letters

\* the block without its fences and without what precedes its first line
\* break
Unwrapped(raw_csv) ==
  SubSeq(Inner(raw_csv), FirstOf(Inner(raw_csv), {"\n"}) + 1, Len(Inner(raw_csv)))

\* C12: on a fenced code block safe_parse_csv returns what it returns on the
\* unwrapped content, whatever the language tag and whatever the content.
FenceRecovery ==
  parser.pc = "parsed" /\ IsFencedBlock(parser.raw_csv) =>
    parser.result.faqs = safe_parse_csv(Unwrapped(parser.raw_csv)).faqs

\* the task is between its start and its end
Active(t) == t.pc \in {"crawl", "synth"}

\* C13: at most one task is between its start and its end at any instant,
\* and the writes of the object key come in submission order.
OneJobAtATime ==
  /\ Cardinality({n \in DOMAIN tasks : Active(tasks[n])}) <= 1
  /\ \A i, j \in 1..Len(uploads) : i < j => uploads[i].task < uploads[j].task

\* the crawl of t has its frontier: lines 249-251 have run
HasFrontier(t) == t.pc # "queued" /\ t.result # "invalid_url"

\* the frontier at an iteration boundary
FrontierOk(t) ==
  /\ NoDuplicates(t.to_visit)
  /\ Range(t.to_visit) \cap t.visited = {}
  /\ NoDuplicates(<<t.url>> \o t.discovered)
  /\ Range(<<t.url>> \o t.discovered) = Range(t.to_visit) \cup t.visited
  /\ t.skipped = 0

\* from one iteration boundary to the next no URL goes backward
FrontierForward(t, u) ==
  /\ t.visited \subseteq u.visited
  /\ Range(t.to_visit) \subseteq Range(u.to_visit) \cup u.visited
  /\ Range(u.to_visit) \cap t.visited = {}

\* C14: at every iteration boundary the queue has no URL twice and none of
\* the visited set; a URL goes from unseen to queued to visited and never
\* back, is enqueued at most once, and the skip branch is never taken.
FrontierInvariant ==
  /\ [](\A n \in DOMAIN tasks : HasFrontier(tasks[n]) => FrontierOk(tasks[n]))
  /\ [][\A n \in DOMAIN tasks :
          HasFrontier(tasks[n]) => FrontierForward(tasks[n], tasks'[n])]_vars

\* a finished crawl in which page a linked back to the visited seed and to
\* the queued b
FrontierWitness ==
  \E n \in DOMAIN tasks :
    /\ CrawlOver(tasks[n])
    /\ tasks[n].url = U_D
    /\ InList(U_DA, PageUrls(tasks[n]))
    /\ InList(U_DB, tasks[n].discovered)
    /\ U_D \in tasks[n].seen
    /\ U_DB \in tasks[n].visited

\* href on the page at page_url resolves to an absolute URL
Resolves(page_url, href) ==
  ~UrlJoinRaises(page_url, href) /\ ~UrlParseRaises(urljoin(page_url, href))

\* the link is fetchable, of the seed's domain and under the seed's path
LinkInScope(t, link) ==
  /\ is_valid_url(link)
  /\ get_domain(link) = t.base_domain
  /\ StartsWith(UrlPath(link), t.base_path)

\* C15: when the crawl has ended, every in-scope link of every emitted page
\* is in the visited set, also when another link of the page does not
\* resolve.
EnqueueCompleteness ==
  \A n \in DOMAIN tasks :
    CrawlOver(tasks[n]) /\ tasks[n].to_visit = <<>> =>
      \A k \in 1..Len(tasks[n].html_pages) :
        LET page_url == tasks[n].html_pages[k][1]
        IN  \A h \in 1..Len(Web[page_url].links) :
              /\ Resolves(page_url, Web[page_url].links[h])
              /\ LinkInScope(tasks[n], urljoin(page_url, Web[page_url].links[h]))
              => urljoin(page_url, Web[page_url].links[h]) \in tasks[n].visited

\* the k-th request of the crawl gave no page: a status other than 200, or
\* an exception
FetchFailed(t, k) == t.statuses[k] # 200

\* the step is an iteration of the crawl loop of t whose fetch failed
FailedIteration(t, u) ==
  /\ Len(u.fetched) = Len(t.fetched) + 1
  /\ FetchFailed(u, Len(u.fetched))

\* C16: a fetch that gives a status other than 200 or raises leaves the URL
\* in the visited set, emits no page, enqueues nothing and leaves the rest
\* of the frontier as it was; the crawl goes on, and the URL is never
\* requested again.
FetchFailureLocal ==
  /\ [](\A n \in DOMAIN tasks :
          /\ Len(tasks[n].statuses) = Len(tasks[n].fetched)
          /\ NoDuplicates(tasks[n].fetched)
          /\ \A k \in 1..Len(tasks[n].fetched) :
               FetchFailed(tasks[n], k) =>
                 /\ tasks[n].fetched[k] \in tasks[n].visited
                 /\ ~InList(tasks[n].fetched[k], PageUrls(tasks[n]))
                 /\ ~InList(tasks[n].fetched[k], tasks[n].to_visit))
  /\ [][\A n \in DOMAIN tasks :
          FailedIteration(tasks[n], tasks'[n]) =>
            /\ tasks'[n].fetched[Len(tasks'[n].fetched)] = Head(tasks[n].to_visit)
            /\ tasks'[n].to_visit = Tail(tasks[n].to_visit)
            /\ tasks'[n].html_pages = tasks[n].html_pages
            /\ tasks'[n].discovered = tasks[n].discovered
            /\ tasks'[n].visited = tasks[n].visited \cup {Head(tasks[n].to_visit)}
            /\ tasks'[n].pc = "crawl"]_vars

\* the fetch of https://a.io/ gave 204, a page fetched later links to it,
\* and the crawl has ended
FetchFailureWitness ==
  \E n \in DOMAIN tasks :
    /\ CrawlOver(tasks[n])
    /\ tasks[n].url = U_BARE
    /\ InList(U_ROOT, tasks[n].fetched)
    /\ tasks[n].statuses[IndexIn(tasks[n].fetched, U_ROOT)] = 204
    /\ InList(U_RX, PageUrls(tasks[n]))
    /\ InList(U_ROOT, Web[U_RX].links)
    /\ IndexIn(tasks[n].fetched, U_ROOT) < IndexIn(tasks[n].fetched, U_RX)

\* the step is an iteration of the loop over pages of t in which the
\* generator failed or gave an empty response
FailedSynthesis(t, u) ==
  /\ Len(u.synthesized) = Len(t.synthesized) + 1
  /\ u.synthesized[Len(u.synthesized)] \in {None, <<>>}

\* the job of t went through the loop over pages to its end
SynthesisOver(t) == t.pc = "done" /\ t.html_pages # <<>>

\* C17: a page whose synthesis fails or is empty gives zero records and
\* leaves the records of earlier pages as they were; every later page is
\* still synthesized and parsed, and the job calls the upload if any page
\* gave a record.
SynthesisFailureLocal ==
  /\ [][\A n \in DOMAIN tasks :
          FailedSynthesis(tasks[n], tasks'[n]) =>
            /\ tasks'[n].all_faqs = tasks[n].all_faqs
            /\ tasks'[n].i = tasks[n].i + 1
            /\ tasks'[n].pc = "synth"]_vars
  /\ [](\A n \in DOMAIN tasks :
          SynthesisOver(tasks[n]) =>
            /\ Len(tasks[n].synthesized) = Len(tasks[n].html_pages)
            /\ tasks[n].all_faqs = Aggregate(tasks[n], Len(tasks[n].html_pages))
            /\ (\E k \in 1..Len(tasks[n].html_pages) : PageRecords(tasks[n], k) # <<>>)
                 => tasks[n].upload_calls = 1)

\* the generator failed on a page between two pages that gave records, and
\* the job called the upload
SynthesisFailureWitness ==
  \E n \in DOMAIN tasks :
    /\ SynthesisOver(tasks[n])
    /\ tasks[n].upload_calls = 1
    /\ \E i, j, k \in 1..Len(tasks[n].html_pages) :
         /\ i < j /\ j < k
         /\ PageRecords(tasks[n], i) # <<>>
         /\ tasks[n].synthesized[j] = None
         /\ PageRecords(tasks[n], k) # <<>>

IsPrefix(s, r) == Len(s) <= Len(r) /\ SubSeq(r, 1, Len(s)) = s

\* the writes of the bucket that came from task n
UploadsOf(n) == {k \in 1..Len(uploads) : uploads[k].task = n}

\* the table of t and the upload at a point of the job
FinalizationOk(n, t) ==
  /\ t.pc \in {"queued", "crawl"} => t.all_faqs = <<>> /\ t.synthesized = <<>>
  /\ t.synthesized # <<>> => CrawlOver(t) /\ t.to_visit = <<>>
  /\ t.upload_calls <= 1
  /\ Cardinality(UploadsOf(n)) <= t.upload_calls
  /\ t.upload_calls = 1 =>
       /\ t.pc = "done"
       /\ t.to_visit = <<>>
       /\ Len(t.synthesized) = Len(t.html_pages)
       /\ t.cleaned_faqs = CleanedFaqs(t.all_faqs)
  /\ t.pc = "done" /\ t.all_faqs # <<>> => t.upload_calls = 1

\* C18: in one job the table starts empty and only grows by appending; it
\* is serialized and handed to the upload at most once, only after the crawl
\* has ended and every page has been synthesized and parsed, and exactly
\* once when some page gave a record.
SingleFinalization ==
  /\ [](\A n \in DOMAIN tasks : FinalizationOk(n, tasks[n]))
  /\ [][\A n \in DOMAIN tasks :
          /\ IsPrefix(tasks[n].all_faqs, tasks'[n].all_faqs)
          /\ tasks'[n].upload_calls # tasks[n].upload_calls =>
               tasks'[n].all_faqs = tasks[n].all_faqs /\ tasks[n].pc = "synth"]_vars

\* a job of three pages or more has stored its table of three records or
\* more
SingleFinalizationWitness ==
  \E n \in DOMAIN tasks :
    /\ tasks[n].pc = "done"
    /\ tasks[n].upload_calls = 1
    /\ Cardinality(UploadsOf(n)) = 1
    /\ Len(tasks[n].html_pages) >= 3
    /\ Len(tasks[n].all_faqs) >= 3

\* the lines of the trimmed, unfenced input
InputLines(raw_csv) == SplitLines(Unfence(raw_csv))

\* the records of the data lines under the header fieldnames, a line read
\* by parse, or none if the header lacks one of the two columns
RecordsUnder(fieldnames, data, parse(_)) ==
  IF InList(QUESTION, fieldnames) /\ InList(ANSWER, fieldnames)
  THEN [k \in 1..Len(data) |-> DictRow(fieldnames, parse(data[k]))]
  ELSE <<>>

\* a line read on its own by the csv reader
AloneByReader(line) == csv_reader(<<line>>)[1]

\* a line cut at its commas
CutAtCommas(line) == SplitChar(line, ",")

HasHttpPrefix(url) ==
  \/ StartsWith(url, HTTP \o <<":", "/", "/">>)
  \/ StartsWith(url, HTTPS \o <<":", "/", "/">>)

\* C20: a seed is accepted, and a link enqueued, only if it begins with
\* http:// or https://; every seed that does is accepted, every other seed
\* is rejected without an exception.
FetchableIffHttpScheme ==
  \A n \in DOMAIN tasks :
    tasks[n].pc # "queued" =>
      /\ tasks[n].result # "invalid_url" <=> HasHttpPrefix(tasks[n].url)
      /\ ~HasHttpPrefix(tasks[n].url) => tasks[n].fetched = <<>>
      /\ \A k \in 1..Len(tasks[n].discovered) : HasHttpPrefix(tasks[n].discovered[k])

=============================================================================
